---- MODULE Spec2Model ----
(***************************************************************************)
(* A model of js/visual-manager.js: the UnifiedVisualManager class, its    *)
(* particle field (createParticles, drawParticles, drawConnections), its   *)
(* render loop (render / requestAnimationFrame / destroy) and its DOM      *)
(* handlers (mobile menu, navbar scroll effect).                           *)
(*                                                                         *)
(* Numbers.  JavaScript numbers are doubles; the model keeps every         *)
(* coordinate as an integer count of 1/Scale pixels.  A quotient is        *)
(* rounded away from zero (Fx), so that a non-zero real result never       *)
(* collapses to zero, as it never does in double arithmetic at the sizes   *)
(* used here.  Math.random() returns k/1000 for the k in the draw set the  *)
(* specification names.                                                    *)
(*                                                                         *)
(* Left out: a particle's size and hue, the floating shapes and the        *)
(* gradient's colours (they are read only by the canvas drawing calls),    *)
(* and initSmoothScroll / initLoadAnimations / initEmailCopy, whose        *)
(* listeners touch none of the state below.                                *)
(***************************************************************************)
EXTENDS Integers, Sequences, FiniteSets, TLC

VARIABLES
    readyState,     \* document.readyState: "loading" or "interactive"
    page,           \* which of #hamburger, #nav-menu, #navbar the page has
    win,            \* <<window.innerWidth, window.innerHeight>>
    constructed,    \* a manager has been constructed
    canvas,         \* this.canvas: NoCanvas or [width, height, attached]
    particles,      \* this.particles
    mouse,          \* this.mouse: [set, x, y] (set = FALSE: x and y are null)
    animationId,    \* this.animationId (0: null)
    gradientOffset, \* this.gradientOffset, in steps of 0.0005
    pending,        \* the frame requests the browser holds (request ids)
    listeners,      \* the event listeners registered: [type, fn]
    menu,           \* #nav-menu's 'active' class and the hamburger's spans
    navbar,         \* this.lastScroll and #navbar's box shadow
    observer,       \* this.observer: "null", "observing" or "disconnected"
    destroyed,      \* destroy() has returned
    error,          \* a handler has thrown
    last            \* what the last handler did (history, read by no action)

vars == <<readyState, page, win, constructed, canvas, particles, mouse,
          animationId, gradientOffset, pending, listeners, menu, navbar,
          observer, destroyed, error, last>>

----------------------------------------------------------------------------
(* Bounds and program constants *)

\* The browser runs at most this many frame requests.
MaxFrames == 3

\* Grid steps per pixel.
Scale == 10 * 10

AreaPerParticle == 15000

MouseRadius == 150

RepelStrength == 3

maxDistance == 120

ShadowThreshold == 50

----------------------------------------------------------------------------
(* Arithmetic *)

Abs(n) == IF n < 0 THEN 0 - n ELSE n

\* n / d (d > 0) on the fixed-point grid, rounded away from zero.
Fx(n, d) == IF n >= 0 THEN (n + d - 1) \div d ELSE 0 - ((0 - n + d - 1) \div d)

RECURSIVE SqrtBits(_, _, _)
\* Math.sqrt on the grid: the largest r with r * r <= n, by bisection on [lo, hi).
SqrtBits(n, lo, hi) ==
    IF hi - lo <= 1 THEN lo
    ELSE LET mid == (lo + hi) \div 2
         IN  IF mid * mid <= n THEN SqrtBits(n, mid, hi) ELSE SqrtBits(n, lo, mid)

Sqrt(n) == SqrtBits(n, 0, 46341)

\* Math.sqrt(dx * dx + dy * dy)
Distance(dx, dy) == Sqrt(dx * dx + dy * dy)

----------------------------------------------------------------------------
(* createParticles *)

\* Math.floor((canvas.width * canvas.height) / 15000)
NumberOfParticles(w, h) == (w * h) \div AreaPerParticle

\* One pass of the loop body: rx, ry, rsx, rsy are the values Math.random()
\* returned for x, y, speedX and speedY, in thousandths.
NewParticle(w, h, rx, ry, rsx, rsy) ==
    LET x == (rx * w * Scale) \div 1000
        y == (ry * h * Scale) \div 1000
    IN  [x |-> x, y |-> y,
         speedX |-> Fx((rsx - 500) * Scale, 2000),
         speedY |-> Fx((rsy - 500) * Scale, 2000),
         originalX |-> x, originalY |-> y]

ParticleChoices(w, h, D) ==
    {NewParticle(w, h, rx, ry, rsx, rsy) : rx \in D, ry \in D, rsx \in D, rsy \in D}

\* createParticles without its first line (this.particles = []): the new
\* particles are pushed after the old ones.
CreateParticlesAppending(old, w, h, D) ==
    {old \o new : new \in [1..NumberOfParticles(w, h) -> ParticleChoices(w, h, D)]}

\* The particle sets createParticles may produce on a w x h canvas (old is the
\* set it discards).
CreateParticles(old, w, h, D) ==
    [1..NumberOfParticles(w, h) -> ParticleChoices(w, h, D)]

----------------------------------------------------------------------------
(* drawParticles: the update of one particle *)

\* Math.cos(Math.atan2(dy, dx)) * len and Math.sin(...) * len: atan2(0, 0) is 0,
\* whose cosine is 1 and sine 0.
AlongX(dx, dy, d, len) == IF d = 0 THEN len ELSE Fx(dx * len, d)

AlongY(dx, dy, d, len) == IF d = 0 THEN 0 ELSE Fx(dy * len, d)

\* The mouse interaction with += for -=: the particle is pulled to the pointer.
RepelToward(p, m) ==
    IF ~m.set THEN p
    ELSE LET dx == m.x * Scale - p.x
             dy == m.y * Scale - p.y
             distance == Distance(dx, dy)
             radius == MouseRadius * Scale
         IN  IF distance < radius
             THEN LET len == Fx((radius - distance) * RepelStrength * Scale, radius)
                  IN  [p EXCEPT !.x = p.x + AlongX(dx, dy, distance, len),
                                !.y = p.y + AlongY(dx, dy, distance, len)]
             ELSE p

\* The mouse interaction of drawParticles.
Repel(p, m) ==
    IF ~m.set THEN p
    ELSE LET dx == m.x * Scale - p.x
             dy == m.y * Scale - p.y
             distance == Distance(dx, dy)
             radius == MouseRadius * Scale
         IN  IF distance < radius
             THEN LET len == Fx((radius - distance) * RepelStrength * Scale, radius)
                  IN  [p EXCEPT !.x = p.x - AlongX(dx, dy, distance, len),
                                !.y = p.y - AlongY(dx, dy, distance, len)]
             ELSE p

\* particle.x += (particle.originalX - particle.x) * 0.02, and y
AnchorPull(p) ==
    [p EXCEPT !.x = p.x + Fx((p.originalX - p.x) * 2, 100),
              !.y = p.y + Fx((p.originalY - p.y) * 2, 100)]

\* particle.x += particle.speedX, and y
Drift(p) == [p EXCEPT !.x = p.x + p.speedX, !.y = p.y + p.speedY]

\* The wrap without its second test: a coordinate below 0 stays there.
WrapCoordNoLower(c, bound) == IF c > bound THEN 0 ELSE c

\* if (c > bound) c = 0; if (c < 0) c = bound;
WrapCoord(c, bound) ==
    LET a == IF c > bound THEN 0 ELSE c
    IN  IF a < 0 THEN bound ELSE a

Wrap(p, w, h) ==
    [p EXCEPT !.x = WrapCoord(p.x, w * Scale), !.y = WrapCoord(p.y, h * Scale)]

Moved(p, m) == Drift(AnchorPull(Repel(p, m)))

UpdateParticle(p, m, w, h) == Wrap(Moved(p, m), w, h)

----------------------------------------------------------------------------
(* drawConnections *)

\* The (i, j) the two loops visit, in their order: j starts at i + 1.
ConnectionPairs(n) ==
    SelectSeq([k \in 1..(n * n) |-> <<((k - 1) \div n) + 1, ((k - 1) % n) + 1>>],
              LAMBDA pr : pr[2] > pr[1])

OpacityDen == 10 * maxDistance * Scale

\* (1 - distance / maxDistance) * 0.3, as a count of 1/OpacityDen
Opacity(distance) == 3 * (maxDistance * Scale - distance)

PairDistance(ps, pr) ==
    Distance(ps[pr[1]].x - ps[pr[2]].x, ps[pr[1]].y - ps[pr[2]].y)

\* drawConnections with <= for <: a pair exactly maxDistance apart gets a line.
DrawConnectionsInclusive(ps) ==
    LET near == SelectSeq(ConnectionPairs(Len(ps)),
                          LAMBDA pr : PairDistance(ps, pr) <= maxDistance * Scale)
    IN  [k \in 1..Len(near) |->
            [i |-> near[k][1], j |-> near[k][2],
             distance |-> PairDistance(ps, near[k]),
             opacity |-> Opacity(PairDistance(ps, near[k]))]]

\* The lines one call strokes, in order.
DrawConnections(ps) ==
    LET near == SelectSeq(ConnectionPairs(Len(ps)),
                          LAMBDA pr : PairDistance(ps, pr) < maxDistance * Scale)
    IN  [k \in 1..Len(near) |->
            [i |-> near[k][1], j |-> near[k][2],
             distance |-> PairDistance(ps, near[k]),
             opacity |-> Opacity(PairDistance(ps, near[k]))]]

----------------------------------------------------------------------------
(* The DOM layer *)

\* toggleMobileMenu with classList.add for classList.toggle.
ToggleMobileMenuAdd(m) == [active |-> TRUE, icon |-> "cross"]

\* toggleMobileMenu: flip 'active', then style the spans after it.
ToggleMobileMenu(m) ==
    LET active == ~m.active
    IN  [active |-> active, icon |-> IF active THEN "cross" ELSE "bars"]

\* closeMobileMenu: remove 'active', reset the spans.
CloseMobileMenu(m) == [active |-> FALSE, icon |-> "bars"]

\* The hamburger shows its 'open' (crossed) styling.
IconOpen(m) == m.icon = "cross"

\* updateNavbarEffect with window.pageYOffset = y, on a page that has #navbar.
UpdateNavbarEffect(nb, y) ==
    [lastScroll |-> y,
     boxShadow |-> IF y > ShadowThreshold THEN "scrolled" ELSE "top"]

----------------------------------------------------------------------------
(* Event listeners *)

Listener(type, fn) == [type |-> type, fn |-> fn]

\* removeEventListener(type, fn): removes the listener of that type that is that
\* very function object; fn names the function expression that created it.
RemoveEventListener(ls, type, fn) == ls \ {Listener(type, fn)}

Registered(type) == \E l \in listeners : l.type = type

\* The listeners initCanvasLayer adds to window.
CanvasListeners ==
    {Listener("resize", "initCanvasLayer"), Listener("mousemove", "initCanvasLayer"),
     Listener("mouseout", "initCanvasLayer")}

\* The listeners initDOMLayer adds on page pg.
DOMListeners(pg) ==
    (IF pg.hamburger /\ pg.navMenu
     THEN {Listener("click:hamburger", "initDOMLayer"),
           Listener("click:navlink", "initDOMLayer")}
     ELSE {})
    \cup {Listener("scroll", "initDOMLayer")}

----------------------------------------------------------------------------
(* History: what the last handler did *)

NoCanvas == [null |-> TRUE]

NoMouse == [set |-> FALSE, x |-> 0, y |-> 0]

\* What one renderCanvas call did to particle set ps under pointer m.
FrameTrace(ps, m) ==
    [lines |-> DrawConnections(ps),
     before |-> ps,
     pointer |-> m,
     repelled |-> [i \in 1..Len(ps) |-> Repel(ps[i], m)],
     moved |-> [i \in 1..Len(ps) |-> Moved(ps[i], m)]]

\* created: <<ps>> when createParticles returned ps; frame: <<t>> when
\* renderCanvas ran with trace t; toggled: the menu as it was before each
\* toggleMobileMenu of the unbroken run of (at most two) toggles that ends here,
\* the latest first.
Trace(op, created, frame) ==
    [op |-> op, created |-> created, frame |-> frame, toggled |-> <<>>]

NoTrace(op) == Trace(op, <<>>, <<>>)

ToggleTrace(m) ==
    [NoTrace("toggleMobileMenu") EXCEPT
        !.toggled = IF last.toggled = <<>> THEN <<m>> ELSE <<m, last.toggled[1]>>]

----------------------------------------------------------------------------
(* The render loop *)

\* render() requesting two frames for each one it paints.
RenderTwice(ps, held, cv) ==
    /\ gradientOffset' = gradientOffset + 1
    /\ particles' = [i \in 1..Len(ps) |->
                        UpdateParticle(ps[i], mouse, cv.width, cv.height)]
    /\ animationId' = animationId + 2
    /\ pending' = held \cup {animationId + 1, animationId + 2}

\* render(): renderCanvas (gradient, connections, particles), then request the
\* next frame.  ps is the particle set it draws on canvas cv, held the requests
\* the browser still holds; the browser numbers its requests 1, 2, ...
Render(ps, held, cv) ==
    /\ gradientOffset' = gradientOffset + 1
    /\ particles' = [i \in 1..Len(ps) |->
                        UpdateParticle(ps[i], mouse, cv.width, cv.height)]
    /\ animationId' = animationId + 1
    /\ pending' = held \cup {animationId + 1}

\* initializeLayers: initCanvasLayer (create the canvas, resizeCanvas,
\* createParticles, add the listeners), initDOMLayer, initScrollAnimations,
\* render.
InitializeLayers(D) ==
    \E ps \in CreateParticles(particles, win[1], win[2], D) :
        /\ canvas' = [width |-> win[1], height |-> win[2], attached |-> TRUE]
        /\ listeners' = listeners \cup CanvasListeners \cup DOMListeners(page)
        /\ observer' = "observing"
        /\ Render(ps, pending, [width |-> win[1], height |-> win[2]])
        /\ last' = Trace("initializeLayers", <<ps>>, <<FrameTrace(ps, mouse)>>)
        /\ UNCHANGED <<mouse, menu, navbar>>

\* new UnifiedVisualManager(): the constructor and init().
Construct(D) ==
    /\ ~constructed
    /\ constructed' = TRUE
    /\ IF readyState = "loading"
       THEN /\ listeners' = listeners \cup {Listener("DOMContentLoaded", "init")}
            /\ last' = NoTrace("constructor")
            /\ UNCHANGED <<canvas, particles, mouse, animationId, gradientOffset,
                           pending, menu, navbar, observer>>
       ELSE InitializeLayers(D)
    /\ UNCHANGED <<readyState, page, win, destroyed, error>>

\* The document finishes parsing: DOMContentLoaded fires, once.
DOMContentLoaded(D) ==
    /\ readyState = "loading"
    /\ readyState' = "interactive"
    /\ IF Listener("DOMContentLoaded", "init") \in listeners
       THEN InitializeLayers(D)
       ELSE /\ last' = NoTrace("DOMContentLoaded")
            /\ UNCHANGED <<canvas, particles, mouse, animationId, gradientOffset,
                           pending, listeners, menu, navbar, observer>>
    /\ UNCHANGED <<page, win, constructed, destroyed, error>>

\* The browser runs a frame callback it holds: render().
Frame ==
    /\ animationId < MaxFrames
    /\ \E id \in pending :
        /\ Render(particles, pending \ {id}, canvas)
        /\ last' = Trace("render", <<>>, <<FrameTrace(particles, mouse)>>)
    /\ UNCHANGED <<readyState, page, win, constructed, canvas, mouse, listeners,
                   menu, navbar, observer, destroyed, error>>

\* destroy()
Destroy ==
    /\ constructed
    /\ ~destroyed
    /\ destroyed' = TRUE
    /\ pending' = IF animationId # 0 THEN pending \ {animationId} ELSE pending
    /\ canvas' = IF canvas # NoCanvas THEN [canvas EXCEPT !.attached = FALSE]
                 ELSE canvas
    /\ observer' = IF observer # "null" THEN "disconnected" ELSE observer
    /\ listeners' =
         RemoveEventListener(
           RemoveEventListener(
             RemoveEventListener(
               RemoveEventListener(listeners, "resize", "destroy"),
               "mousemove", "destroy"),
             "mouseout", "destroy"),
           "scroll", "destroy")
    /\ last' = NoTrace("destroy")
    /\ UNCHANGED <<readyState, page, win, constructed, particles, mouse,
                   animationId, gradientOffset, menu, navbar, error>>

----------------------------------------------------------------------------
(* Window events *)

\* The window is resized to a size of Z; resizeCanvas runs if it is listening.
Resize(Z, D) ==
    \E z \in Z \ {win} :
        /\ win' = z
        /\ IF Registered("resize")
           THEN /\ canvas' = [canvas EXCEPT !.width = z[1], !.height = z[2]]
                /\ IF Len(particles) > 0
                   THEN \E ps \in CreateParticles(particles, z[1], z[2], D) :
                            /\ particles' = ps
                            /\ last' = Trace("resizeCanvas", <<ps>>, <<>>)
                   ELSE /\ particles' = particles
                        /\ last' = NoTrace("resizeCanvas")
           ELSE /\ last' = NoTrace("resize")
                /\ UNCHANGED <<canvas, particles>>
        /\ UNCHANGED <<readyState, page, constructed, mouse, animationId,
                       gradientOffset, pending, listeners, menu, navbar, observer,
                       destroyed, error>>

\* handleMouseMove(e), e.clientX / e.clientY a point of P inside the window
HandleMouseMove(P) ==
    /\ Registered("mousemove")
    /\ \E pt \in P :
        /\ pt[1] < win[1] /\ pt[2] < win[2]
        /\ mouse' = [set |-> TRUE, x |-> pt[1], y |-> pt[2]]
    /\ mouse' # mouse
    /\ last' = NoTrace("handleMouseMove")
    /\ UNCHANGED <<readyState, page, win, constructed, canvas, particles,
                   animationId, gradientOffset, pending, listeners, menu, navbar,
                   observer, destroyed, error>>

\* handleMouseOut()
HandleMouseOut ==
    /\ Registered("mouseout")
    /\ mouse.set
    /\ mouse' = NoMouse
    /\ last' = NoTrace("handleMouseOut")
    /\ UNCHANGED <<readyState, page, win, constructed, canvas, particles,
                   animationId, gradientOffset, pending, listeners, menu, navbar,
                   observer, destroyed, error>>

\* The page scrolls to an offset of Y: updateNavbarEffect.  this.navbar is
\* null on a page without #navbar, and reading its style throws.
Scroll(Y) ==
    /\ Registered("scroll")
    /\ \E y \in Y :
        IF page.navbar
        THEN navbar' = UpdateNavbarEffect(navbar, y) /\ error' = error
        ELSE navbar' = navbar /\ error' = TRUE
    /\ last' = NoTrace("updateNavbarEffect")
    /\ UNCHANGED <<readyState, page, win, constructed, canvas, particles, mouse,
                   animationId, gradientOffset, pending, listeners, menu,
                   observer, destroyed>>

\* A click on the hamburger: toggleMobileMenu.
HamburgerClick ==
    /\ Listener("click:hamburger", "initDOMLayer") \in listeners
    /\ menu' = ToggleMobileMenu(menu)
    /\ last' = ToggleTrace(menu)
    /\ UNCHANGED <<readyState, page, win, constructed, canvas, particles, mouse,
                   animationId, gradientOffset, pending, listeners, navbar,
                   observer, destroyed, error>>

\* A click on a link of the menu: closeMobileMenu.
NavLinkClick ==
    /\ Listener("click:navlink", "initDOMLayer") \in listeners
    /\ menu' = CloseMobileMenu(menu)
    /\ last' = NoTrace("closeMobileMenu")
    /\ UNCHANGED <<readyState, page, win, constructed, canvas, particles, mouse,
                   animationId, gradientOffset, pending, listeners, navbar,
                   observer, destroyed, error>>

----------------------------------------------------------------------------
(* Specifications *)

Pages == [hamburger : BOOLEAN, navMenu : BOOLEAN, navbar : BOOLEAN]

FullPage == [hamburger |-> TRUE, navMenu |-> TRUE, navbar |-> TRUE]

\* The page before any manager exists: the state the constructor sets up
\* (particles = [], mouse null, animationId null, gradientOffset 0, lastScroll 0).
InitOn(states, pages, sizes) ==
    /\ readyState \in states
    /\ page \in pages
    /\ win \in sizes
    /\ constructed = FALSE
    /\ canvas = NoCanvas
    /\ particles = <<>>
    /\ mouse = NoMouse
    /\ animationId = 0
    /\ gradientOffset = 0
    /\ pending = {}
    /\ listeners = {}
    /\ menu = [active |-> FALSE, icon |-> "stylesheet"]
    /\ navbar = [lastScroll |-> 0, boxShadow |-> "stylesheet"]
    /\ observer = "null"
    /\ destroyed = FALSE
    /\ error = FALSE
    /\ last = NoTrace("none")

\* The whole life of a manager on the site's page: window sizes with 0 and 1
\* particles.
WindowSizes == {<<100, 100>>, <<200, 100>>}

RandomDraws == {0, 500}

Pointers == {<<150, 50>>}

ScrollOffsets == {80}

Init == InitOn({"loading", "interactive"}, {FullPage}, WindowSizes)

Next ==
    \/ Construct(RandomDraws)
    \/ DOMContentLoaded(RandomDraws)
    \/ Frame
    \/ Destroy
    \/ Resize(WindowSizes, RandomDraws)
    \/ HandleMouseMove(Pointers)
    \/ HandleMouseOut
    \/ Scroll(ScrollOffsets)

Spec == Init /\ [][Next]_vars

\* The DOM layer on pages with any of the three elements missing; the window
\* is too small for a particle.
DOMSizes == {<<100, 100>>}

DOMScrollOffsets == {0, 80}

InitDOM == InitOn({"loading", "interactive"}, Pages, DOMSizes)

NextDOM ==
    \/ Construct(RandomDraws)
    \/ DOMContentLoaded(RandomDraws)
    \/ Frame
    \/ Destroy
    \/ Scroll(DOMScrollOffsets)
    \/ HamburgerClick
    \/ NavLinkClick

SpecDOM == InitDOM /\ [][NextDOM]_vars

\* The particle field of a manager constructed on a loaded page, under the
\* pointer: window sizes with one particle.
CanvasSizes == {<<200, 100>>, <<150, 100>>}

CanvasDraws == {0, 500, 999}

CanvasPointers == {<<0, 0>>, <<75, 0>>, <<45, 60>>, <<149, 0>>}

InitCanvas == InitOn({"interactive"}, {FullPage}, CanvasSizes)

NextCanvas ==
    \/ Construct(CanvasDraws)
    \/ Frame
    \/ Resize(CanvasSizes, CanvasDraws)
    \/ HandleMouseMove(CanvasPointers)
    \/ HandleMouseOut

SpecCanvas == InitCanvas /\ [][NextCanvas]_vars

\* The connection lines of a manager constructed on a loaded page: window
\* sizes with 2 and 3 particles, drawn 60, 120 and more pixels apart.
LineSizes == {<<250, 120>>, <<240, 125>>, <<375, 120>>}

InitLines == InitOn({"interactive"}, {FullPage}, LineSizes)

NextLines ==
    \/ Construct(RandomDraws)
    \/ Frame

SpecLines == InitLines /\ [][NextLines]_vars

----------------------------------------------------------------------------
(* Properties *)

\* The last handler called createParticles / ran renderCanvas.
Created == last.created # <<>>

Framed == last.frame # <<>>

SqDist(dx, dy) == dx * dx + dy * dy

\* C1: after initialization and any resizes, the particle set has exactly
\* floor(W * H / 15000) particles for the current canvas width W and height H,
\* also when the set was empty before the resize.
C1_CountFollowsResize ==
    canvas # NoCanvas =>
        /\ canvas.width = win[1] /\ canvas.height = win[2]
        /\ Len(particles) * AreaPerParticle <= canvas.width * canvas.height
        /\ canvas.width * canvas.height < (Len(particles) + 1) * AreaPerParticle

\* C2: createParticles discards the previous set and yields exactly
\* floor(W * H / 15000) particles, each inside [0, W) x [0, H) and anchored at
\* its initial position; a 1500 x 1000 surface yields 100.
C2_CreateParticles ==
    /\ Created =>
          LET ps == last.created[1]
              W == canvas.width
              H == canvas.height
          IN  /\ Len(ps) * AreaPerParticle <= W * H
              /\ W * H < (Len(ps) + 1) * AreaPerParticle
              /\ \A i \in 1..Len(ps) :
                    /\ 0 <= ps[i].x /\ ps[i].x < W * Scale
                    /\ 0 <= ps[i].y /\ ps[i].y < H * Scale
                    /\ ps[i].originalX = ps[i].x
                    /\ ps[i].originalY = ps[i].y
              /\ last.op = "resizeCanvas" => particles = ps
    /\ \A ps \in CreateParticles(particles, 1500, 1000, {500}) : Len(ps) = 100

\* A resize replaced a one-particle set by a new one-particle set drawn next to
\* the right edge.
C2_Witness ==
    /\ Created
    /\ last.op = "resizeCanvas"
    /\ Len(particles) = 1
    /\ particles[1].x = (999 * canvas.width * Scale) \div 1000
    /\ particles[1].originalX = particles[1].x

\* C3: in a frame, a particle whose x after repulsion, anchor pull and drift
\* exceeds W is at 0 after that frame, one whose x is below 0 is at W, any
\* other keeps its x (and so for y with H); after every frame each particle
\* lies inside [0, W] x [0, H].
C3_ToroidalWrap ==
    Framed =>
        LET t == last.frame[1]
            W == canvas.width * Scale
            H == canvas.height * Scale
        IN  /\ Len(particles) = Len(t.moved)
            /\ \A i \in 1..Len(particles) :
                  LET a == t.moved[i]
                      p == particles[i]
                  IN  /\ a.x > W => p.x = 0
                      /\ a.x < 0 => p.x = W
                      /\ (0 <= a.x /\ a.x <= W) => p.x = a.x
                      /\ a.y > H => p.y = 0
                      /\ a.y < 0 => p.y = H
                      /\ (0 <= a.y /\ a.y <= H) => p.y = a.y
                      /\ 0 <= p.x /\ p.x <= W
                      /\ 0 <= p.y /\ p.y <= H

\* A frame moved a particle past the right edge and above the top edge, and
\* left it at (0, H).
C3_Witness ==
    /\ Framed
    /\ \E i \in 1..Len(particles) :
          /\ last.frame[1].moved[i].x > canvas.width * Scale
          /\ last.frame[1].moved[i].y < 0
          /\ particles[i].x = 0
          /\ particles[i].y = canvas.height * Scale

\* C4: once destroy() has returned, no frame request is pending and no frame
\* is rendered, whatever the manager's state when destroy() was called.
C4_DestroyStopsLoop == destroyed => pending = {}

\* C5: at most one frame request is outstanding, it is the one animationId
\* names, and every request made followed a completed renderCanvas (as many
\* requests as paints), under any interleaving of frames with resize and
\* pointer events.
C5_OneFrameRequest ==
    /\ Cardinality(pending) <= 1
    /\ pending \subseteq {animationId}
    /\ animationId = gradientOffset

\* Three frames have run, the pointer has moved over the window, and the
\* fourth is requested.
C5_Witness ==
    /\ last.op = "render"
    /\ animationId = MaxFrames
    /\ pending = {animationId}
    /\ mouse.set
    /\ Len(particles) = 1

\* C6: with any of #hamburger, #nav-menu, #navbar missing, initialization and
\* every later callback complete without raising an error.
C6_NoError == ~error

\* C7: the repulsion step of a frame.  Pointer cleared, or at distance >= R:
\* the position is unchanged.  At 0 < d < R: the particle moves strictly away
\* from the pointer, along the line through both (to the grid's rounding), by
\* 3 * (R - d) / R pixels (to the grid's rounding); with the pointer 75 pixels
\* to its side, by exactly 1.5 pixels.  At d = 0: by 3 pixels to the left.
C7_PointerRepulsion ==
    Framed =>
        LET t == last.frame[1]
            m == t.pointer
            R == MouseRadius * Scale
        IN  \A i \in 1..Len(t.before) :
              LET b == t.before[i]
                  r == t.repelled[i]
                  dx == b.x - m.x * Scale
                  dy == b.y - m.y * Scale
                  d == Sqrt(SqDist(dx, dy))
                  mx == r.x - b.x
                  my == r.y - b.y
                  len == Sqrt(SqDist(mx, my))
              IN  /\ r.originalX = b.originalX /\ r.originalY = b.originalY
                  /\ r.speedX = b.speedX /\ r.speedY = b.speedY
                  /\ ~m.set => (mx = 0 /\ my = 0)
                  /\ (m.set /\ SqDist(dx, dy) >= R * R) => (mx = 0 /\ my = 0)
                  /\ (m.set /\ SqDist(dx, dy) = 0) =>
                        (mx = 0 - RepelStrength * Scale /\ my = 0)
                  /\ (m.set /\ SqDist(dx, dy) > 0 /\ SqDist(dx, dy) < R * R) =>
                        /\ mx * dx + my * dy > 0
                        /\ Abs(mx * dy - my * dx) <= Abs(dx) + Abs(dy)
                        /\ (len + 1) * R >= RepelStrength * Scale * (R - d)
                        /\ len * d
                             <= ((RepelStrength * Scale * (R - d)) \div R + 1) * (d + 1)
                                + 2 * d
                  /\ (m.set /\ dy = 0 /\ Abs(dx) * 2 = R) =>
                        (Abs(mx) * 2 = RepelStrength * Scale /\ my = 0)

\* A frame repelled a particle that was 75 pixels from the pointer.
C7_Witness ==
    /\ Framed
    /\ last.frame[1].pointer.set
    /\ \E i \in 1..Len(last.frame[1].before) :
          LET b == last.frame[1].before[i]
              m == last.frame[1].pointer
          IN  /\ b.y = m.y * Scale
              /\ m.x * Scale - b.x = 75 * Scale
              /\ last.frame[1].repelled[i].x = b.x - (RepelStrength * Scale) \div 2

\* C8: in a frame, every unordered pair of particles gets exactly one line if
\* its distance is < 120 and none otherwise; a line's opacity is
\* (1 - distance / 120) * 0.3, which is 0.15 at distance 60, positive, and
\* smaller for the longer of any two lines.
C8_ConnectionLines ==
    Framed =>
        LET t == last.frame[1]
            ps == t.before
            D == maxDistance * Scale
            LinesOf(i, j) ==
                {k \in 1..Len(t.lines) : {t.lines[k].i, t.lines[k].j} = {i, j}}
        IN  /\ \A i \in 1..Len(ps) : \A j \in (i + 1)..Len(ps) :
                  Cardinality(LinesOf(i, j)) =
                      IF SqDist(ps[i].x - ps[j].x, ps[i].y - ps[j].y) < D * D
                      THEN 1 ELSE 0
            /\ \A k \in 1..Len(t.lines) :
                  LET l == t.lines[k]
                      sq == SqDist(ps[l.i].x - ps[l.j].x, ps[l.i].y - ps[l.j].y)
                  IN  /\ l.i # l.j
                      /\ l.distance * l.distance <= sq
                      /\ sq < (l.distance + 1) * (l.distance + 1)
                      /\ 10 * l.opacity = 3 * (D - l.distance) * (OpacityDen \div D)
                      /\ l.opacity > 0
                      /\ l.distance = 60 * Scale => 20 * l.opacity = 3 * OpacityDen
            /\ \A k1, k2 \in 1..Len(t.lines) :
                  t.lines[k1].distance < t.lines[k2].distance
                      => t.lines[k1].opacity > t.lines[k2].opacity

\* A frame drew the lines of three particles: two of them 60 pixels apart
\* (opacity 0.15), two at the same point.
C8_Witness ==
    /\ Framed
    /\ Len(last.frame[1].before) = 3
    /\ \E k1, k2 \in 1..Len(last.frame[1].lines) :
          /\ last.frame[1].lines[k1].distance = 60 * Scale
          /\ 20 * last.frame[1].lines[k1].opacity = 3 * OpacityDen
          /\ last.frame[1].lines[k2].distance = 0

\* C9: two toggleMobileMenu calls in a row leave the menu's 'active' class
\* as it was; the hamburger shows its open styling exactly when the menu is
\* active.
C9_MenuToggle ==
    /\ Len(last.toggled) = 2 => menu.active = last.toggled[2].active
    /\ IconOpen(menu) <=> menu.active

\* The menu was open, and two toggles in a row have left it open.
C9_Witness ==
    /\ Len(last.toggled) = 2
    /\ last.toggled[2].active
    /\ menu.active
    /\ IconOpen(menu)

\* C10: after destroy() has returned, no resize, mousemove, mouseout or scroll
\* listener of the manager is registered any more.
C10_DestroyRemovesListeners ==
    destroyed =>
        ~\E l \in listeners : l.type \in {"resize", "mousemove", "mouseout", "scroll"}

====
